---------------------------- MODULE Spec2Model ----------------------------
(***************************************************************************)
(* SmartDrive ADAS: the sensor fusion engine (software/fusion/             *)
(* sensor_fusion.py, class SensorFusion) as a state machine.               *)
(*                                                                         *)
(* Numbers.  The engine computes with Python floats.  Here every float is  *)
(* an exact rational [n |-> numerator, d |-> denominator] with d > 0, kept *)
(* in lowest terms, so that 0.3 is 3/10 and confidence / total_confidence  *)
(* is the exact quotient.  Distances are whole metres, speeds whole km/h,  *)
(* timestamps whole seconds.  float('inf') is the sentinel INF.            *)
(*                                                                         *)
(* Dictionaries.  A Python dict is a function whose DOMAIN is its key set; *)
(* d.get(k, default) is Get(d, k, default).                                *)
(***************************************************************************)
EXTENDS Integers, Sequences, FiniteSets, TLC

VARIABLES
    buffer_size,        \* self.buffer_size
    vision_buffer,      \* self.vision_buffer   (deque, oldest first)
    obd_buffer,         \* self.obd_buffer
    fatigue_buffer,     \* self.fatigue_buffer
    weights,            \* self.weights
    alert_thresholds,   \* self.alert_thresholds
    now,                \* the reading of time.time()
    pushed,             \* per channel, every entry ever appended, in order
    ret,                \* the call made by the last step and what it returned
    reader,             \* a thread inside generate_comprehensive_assessment
    writer,             \* a thread inside adjust_fusion_weights
    disk,               \* the files written by export_data, by path
    data_buffer         \* OBDReader.data_buffer

vars == <<buffer_size, vision_buffer, obd_buffer, fatigue_buffer, weights,
          alert_thresholds, now, pushed, ret, reader, writer, disk, data_buffer>>

buffers == <<vision_buffer, obd_buffer, fatigue_buffer>>

\* what a call made in one piece on the engine leaves alone: the two threads,
\* the file system and the OBD reader
others == <<reader, writer, disk, data_buffer>>

----------------------------------------------------------------------------
(* Bounds of the model *)

MaxCapacity == 2        \* engines are built with buffer_size in 1..MaxCapacity
MaxPushes == 3          \* ingest calls made on one engine, all channels together
MaxTime == 6            \* the clock runs from 0 to MaxTime
MaxConf == 1            \* confidences passed to adjust_fusion_weights: -1..MaxConf
ExtraPushes == 1        \* entries appended to a default-capacity engine beyond its capacity
MaxAdjusts == 1         \* calls of adjust_fusion_weights made next to a reader

(* Program constants *)

INF == 999999           \* float('inf')
WINDOW == 5             \* "Only last 5 seconds"
DEFAULT_CONFIDENCE == 100   \* confidence 1.0, in hundredths
DEFAULT_EAR == 30           \* ear 0.3, in hundredths
DEFAULT_BUFFER_SIZE == 10   \* def __init__(self, buffer_size=10)

----------------------------------------------------------------------------
(* Exact rationals standing for the floats *)

RECURSIVE GCD(_, _)
GCD(a, b) == IF b = 0 THEN a ELSE GCD(b, a % b)

Abs(i) == IF i < 0 THEN -i ELSE i

\* n / d for d > 0, in lowest terms
Rat(n, d) ==
    LET g == GCD(Abs(n), d)
    IN  [n |-> n \div g, d |-> d \div g]

Zero == [n |-> 0, d |-> 1]
One  == [n |-> 1, d |-> 1]

RAdd(a, b) == Rat(a.n * b.d + b.n * a.d, a.d * b.d)
RSub(a, b) == Rat(a.n * b.d - b.n * a.d, a.d * b.d)
RMul(a, b) == Rat(a.n * b.n, a.d * b.d)
RLt(a, b)  == a.n * b.d < b.n * a.d
RLe(a, b)  == a.n * b.d <= b.n * a.d
RMin(a, b) == IF RLt(b, a) THEN b ELSE a
RMax(a, b) == IF RLt(a, b) THEN b ELSE a

----------------------------------------------------------------------------
(* Python helpers *)

\* dict.get(key, default)
Get(dict, key, default) == IF key \in DOMAIN dict THEN dict[key] ELSE default

\* deque(maxlen = maxlen).append(item): at capacity the oldest entry goes first
DequeAppendDropsNewest(deque, item, maxlen) ==
    IF Len(deque) = maxlen THEN deque ELSE Append(deque, item)

\* a list that grows without bound
DequeAppendUnbounded(deque, item, maxlen) == Append(deque, item)

DequeAppend(deque, item, maxlen) ==
    IF Len(deque) = maxlen
    THEN Append(Tail(deque), item)
    ELSE Append(deque, item)

\* min(...) of a non-empty set of numbers
MinOf(S) == CHOOSE x \in S : \A y \in S : x <= y

Sensors == {"vision", "obd", "fatigue"}


----------------------------------------------------------------------------
(* Ingestion: add_vision_data, add_obd_data, add_fatigue_data *)

\* the objects of a detection list that pass "if obj.get('distance')":
\* a missing distance and a distance of 0 are both falsy
DistancesOf(objects) ==
    { objects[i]["distance"] :
        i \in { j \in DOMAIN objects :
                  /\ "distance" \in DOMAIN objects[j]
                  /\ objects[j]["distance"] # 0 } }

_get_closest_object_distance(vision_data) ==
    LET objects == Get(vision_data, "detected_objects", <<>>)
    IN  IF objects = <<>>
        THEN INF
        ELSE IF DistancesOf(objects) # {}
             THEN MinOf(DistancesOf(objects))
             ELSE INF

VisionEntry(vision_data) ==
    [ timestamp               |-> now,
      lane_departure          |-> Get(vision_data, "lane_departure_warning", FALSE),
      collision_warning       |-> Get(vision_data, "collision_warning", FALSE),
      objects_detected        |-> Len(Get(vision_data, "detected_objects", <<>>)),
      closest_object_distance |-> _get_closest_object_distance(vision_data),
      confidence              |-> Get(vision_data, "confidence", DEFAULT_CONFIDENCE) ]

ObdEntry(obd_data) ==
    LET behavior_analysis == Get(obd_data, "behavior_analysis", <<>>)
    IN  [ timestamp               |-> now,
          speed                   |-> Get(obd_data, "speed", 0),
          rpm                     |-> Get(obd_data, "rpm", 0),
          throttle_position       |-> Get(obd_data, "throttle_position", 0),
          aggressive_acceleration |-> Get(behavior_analysis, "aggressive_acceleration", FALSE),
          aggressive_braking      |-> Get(behavior_analysis, "aggressive_braking", FALSE),
          excessive_speed         |-> Get(behavior_analysis, "excessive_speed", FALSE),
          engine_stress           |-> Get(behavior_analysis, "engine_stress", FALSE) ]

FatigueEntry(fatigue_data) ==
    [ timestamp      |-> now,
      fatigue_score  |-> Get(fatigue_data, "fatigue_score", 0),
      blink_detected |-> Get(fatigue_data, "blink_detected", FALSE),
      yawn_detected  |-> Get(fatigue_data, "yawn_detected", FALSE),
      ear            |-> Get(fatigue_data, "ear", DEFAULT_EAR),
      confidence     |-> Get(fatigue_data, "confidence", DEFAULT_CONFIDENCE) ]

\* what a call leaves in ret: its name, its argument, its return value
Call(op, arg, value) == [op |-> op, arg |-> arg, value |-> value]

None == "None"

add_vision_data(vision_data) ==
    /\ vision_buffer' = DequeAppend(vision_buffer, VisionEntry(vision_data), buffer_size)
    /\ pushed' = [pushed EXCEPT !.vision = Append(@, VisionEntry(vision_data))]
    /\ ret' = Call("add_vision_data", vision_data, None)
    /\ UNCHANGED <<buffer_size, obd_buffer, fatigue_buffer, weights, alert_thresholds, now, others>>

\* the obd entry appended to the vision history as well, as if the two
\* histories were one object
add_obd_data_shared_buffer(obd_data) ==
    /\ obd_buffer' = DequeAppend(obd_buffer, ObdEntry(obd_data), buffer_size)
    /\ vision_buffer' = DequeAppend(vision_buffer, ObdEntry(obd_data), buffer_size)
    /\ pushed' = [pushed EXCEPT !.obd = Append(@, ObdEntry(obd_data))]
    /\ ret' = Call("add_obd_data", obd_data, None)
    /\ UNCHANGED <<buffer_size, fatigue_buffer, weights, alert_thresholds, now, others>>

add_obd_data(obd_data) ==
    /\ obd_buffer' = DequeAppend(obd_buffer, ObdEntry(obd_data), buffer_size)
    /\ pushed' = [pushed EXCEPT !.obd = Append(@, ObdEntry(obd_data))]
    /\ ret' = Call("add_obd_data", obd_data, None)
    /\ UNCHANGED <<buffer_size, vision_buffer, fatigue_buffer, weights, alert_thresholds, now, others>>

add_fatigue_data(fatigue_data) ==
    /\ fatigue_buffer' = DequeAppend(fatigue_buffer, FatigueEntry(fatigue_data), buffer_size)
    /\ pushed' = [pushed EXCEPT !.fatigue = Append(@, FatigueEntry(fatigue_data))]
    /\ ret' = Call("add_fatigue_data", fatigue_data, None)
    /\ UNCHANGED <<buffer_size, vision_buffer, obd_buffer, weights, alert_thresholds, now, others>>

----------------------------------------------------------------------------
(* The four risks *)

\* the vision risk taken from the collision warning alone
VisionRiskWarningOnly(latest_vision) ==
    IF latest_vision.collision_warning THEN Rat(8, 10) ELSE Zero

\* "Vision-based risk" of the latest vision entry
VisionRisk(latest_vision) ==
    LET closest_distance == latest_vision.closest_object_distance
        distance_risk == RMax(Zero, RSub(One, Rat(closest_distance, 20)))
    IN  RAdd(IF latest_vision.collision_warning THEN Rat(8, 10) ELSE Zero,
             IF closest_distance # INF
             THEN RMul(distance_risk, Rat(6, 10))
             ELSE Zero)

\* "OBD-based risk" of the latest obd entry
ObdRisk(latest_obd) ==
    LET speed == latest_obd.speed
    IN  RAdd(IF speed > 60
             THEN RMul(Rat(speed - 60, 100), Rat(4, 10))
             ELSE Zero,
             IF latest_obd.aggressive_acceleration \/ latest_obd.aggressive_braking
             THEN Rat(3, 10)
             ELSE Zero)

\* the weighted combination of the two latest entries,
\* "return min(total_risk, 1.0)": capped at 1, no floor at 0
TotalRisk(latest_vision, latest_obd) ==
    LET vision_risk == VisionRisk(latest_vision)
        obd_risk == ObdRisk(latest_obd)
        total_risk == RAdd(RMul(vision_risk, weights["vision"]),
                           RMul(obd_risk, weights["obd"]))
    IN  RMin(total_risk, One)

\* "if not self.vision_buffer or not self.obd_buffer: return 0.0"
calculate_collision_risk ==
    IF vision_buffer = <<>> \/ obd_buffer = <<>>
    THEN Zero
    ELSE TotalRisk(vision_buffer[Len(vision_buffer)], obd_buffer[Len(obd_buffer)])

\* the scan with the window closed at exactly WINDOW seconds
RECURSIVE RecentWarningsBelowWindow(_, _, _)
RecentWarningsBelowWindow(buffer, i, current_time) ==
    IF i = 0 THEN 0
    ELSE IF current_time - buffer[i].timestamp >= WINDOW THEN 0
    ELSE (IF buffer[i].lane_departure THEN 1 ELSE 0)
         + RecentWarningsBelowWindow(buffer, i - 1, current_time)

\* the scan "for entry in reversed(...)": the number of lane_departure entries
\* met from position i down to 1 before the first entry older than WINDOW
RECURSIVE RecentWarnings(_, _, _)
RecentWarnings(buffer, i, current_time) ==
    IF i = 0 THEN 0
    ELSE IF current_time - buffer[i].timestamp > WINDOW THEN 0
    ELSE (IF buffer[i].lane_departure THEN 1 ELSE 0)
         + RecentWarnings(buffer, i - 1, current_time)

calculate_lane_departure_risk ==
    IF vision_buffer = <<>>
    THEN Zero
    ELSE RMin(Rat(RecentWarnings(vision_buffer, Len(vision_buffer), now),
                  Len(vision_buffer)),
              One)

calculate_driver_fatigue_risk ==
    IF fatigue_buffer = <<>>
    THEN Zero
    ELSE
      LET latest_fatigue == fatigue_buffer[Len(fatigue_buffer)]
          recent_yawns ==
              Cardinality({i \in DOMAIN fatigue_buffer : fatigue_buffer[i].yawn_detected})
          fatigue_risk ==
              RAdd(Rat(latest_fatigue.fatigue_score, 100),
                   IF recent_yawns > 2 THEN Rat(2, 10) ELSE Zero)
      IN  RMin(fatigue_risk, One)

\* the count taken per flag instead of per entry
calculate_aggressive_driving_risk_per_flag ==
    IF obd_buffer = <<>>
    THEN Zero
    ELSE
      LET flags == {"aggressive_acceleration", "aggressive_braking",
                    "excessive_speed", "engine_stress"}
          aggressive_count ==
              Cardinality({p \in (DOMAIN obd_buffer) \X flags : obd_buffer[p[1]][p[2]]})
      IN  Rat(aggressive_count, Len(obd_buffer))

calculate_aggressive_driving_risk ==
    IF obd_buffer = <<>>
    THEN Zero
    ELSE
      LET total_entries == Len(obd_buffer)
          aggressive_count ==
              Cardinality({i \in DOMAIN obd_buffer :
                              \/ obd_buffer[i].aggressive_acceleration
                              \/ obd_buffer[i].aggressive_braking
                              \/ obd_buffer[i].excessive_speed
                              \/ obd_buffer[i].engine_stress})
      IN  IF total_entries > 0 THEN Rat(aggressive_count, total_entries) ELSE Zero

----------------------------------------------------------------------------
(* generate_comprehensive_assessment *)

Alert(type, severity, message) ==
    [type |-> type, severity |-> severity, message |-> message]

COLLISION_WARNING ==
    Alert("COLLISION_WARNING", "HIGH", "Collision risk detected! Maintain safe distance.")
LANE_DEPARTURE ==
    Alert("LANE_DEPARTURE", "MEDIUM", "Lane departure detected. Return to lane.")
FATIGUE_WARNING ==
    Alert("FATIGUE_WARNING", "HIGH", "Driver fatigue detected. Take a break.")
AGGRESSIVE_DRIVING ==
    Alert("AGGRESSIVE_DRIVING", "MEDIUM", "Aggressive driving detected. Drive more calmly.")

Risks ==
    [ collision          |-> calculate_collision_risk,
      lane_departure     |-> calculate_lane_departure_risk,
      driver_fatigue     |-> calculate_driver_fatigue_risk,
      aggressive_driving |-> calculate_aggressive_driving_risk ]

\* the comparison written ">="
ExceedsOrEquals(risk, threshold) == RLe(threshold, risk)

\* "if risks[...] > self.alert_thresholds[...]: assessment['alerts'].append(...)"
Exceeds(risk, threshold) == RLt(threshold, risk)

\* the alerts with the aggressive driving test before the fatigue test
AlertsFatigueLast(risks) ==
    (IF Exceeds(risks.collision, alert_thresholds["collision_risk"])
     THEN <<COLLISION_WARNING>> ELSE <<>>)
    \o (IF Exceeds(risks.lane_departure, alert_thresholds["lane_departure"])
        THEN <<LANE_DEPARTURE>> ELSE <<>>)
    \o (IF Exceeds(risks.aggressive_driving, alert_thresholds["aggressive_driving"])
        THEN <<AGGRESSIVE_DRIVING>> ELSE <<>>)
    \o (IF Exceeds(risks.driver_fatigue, alert_thresholds["driver_fatigue"])
        THEN <<FATIGUE_WARNING>> ELSE <<>>)

Alerts(risks) ==
    (IF Exceeds(risks.collision, alert_thresholds["collision_risk"])
     THEN <<COLLISION_WARNING>> ELSE <<>>)
    \o (IF Exceeds(risks.lane_departure, alert_thresholds["lane_departure"])
        THEN <<LANE_DEPARTURE>> ELSE <<>>)
    \o (IF Exceeds(risks.driver_fatigue, alert_thresholds["driver_fatigue"])
        THEN <<FATIGUE_WARNING>> ELSE <<>>)
    \o (IF Exceeds(risks.aggressive_driving, alert_thresholds["aggressive_driving"])
        THEN <<AGGRESSIVE_DRIVING>> ELSE <<>>)

\* the recommendations taken at the alert thresholds
RecommendationsByThreshold(risks) ==
    (IF Exceeds(risks.collision, alert_thresholds["collision_risk"])
     THEN <<"Increase following distance">> ELSE <<>>)
    \o (IF Exceeds(risks.driver_fatigue, alert_thresholds["driver_fatigue"])
        THEN <<"Consider taking a break">> ELSE <<>>)
    \o (IF Exceeds(risks.aggressive_driving, alert_thresholds["aggressive_driving"])
        THEN <<"Reduce acceleration and maintain steady speed">> ELSE <<>>)

Recommendations(risks) ==
    (IF RLt(Rat(3, 10), risks.collision)
     THEN <<"Increase following distance">> ELSE <<>>)
    \o (IF RLt(Rat(5, 10), risks.driver_fatigue)
        THEN <<"Consider taking a break">> ELSE <<>>)
    \o (IF RLt(Rat(4, 10), risks.aggressive_driving)
        THEN <<"Reduce acceleration and maintain steady speed">> ELSE <<>>)

WeightedRisk(risks) ==
    RAdd(RAdd(RMul(risks.collision, Rat(4, 10)),
              RMul(risks.lane_departure, Rat(2, 10))),
         RAdd(RMul(risks.driver_fatigue, Rat(3, 10)),
              RMul(risks.aggressive_driving, Rat(1, 10))))

\* the score taken as the weighted risk itself ("lower is better")
SafetyScoreAsRisk(risks) == RMax(Zero, RMul(WeightedRisk(risks), Rat(100, 1)))

\* "max(0, 100 - (weighted_risk * 100))"
SafetyScore(risks) ==
    RMax(Zero, RSub(Rat(100, 1), RMul(WeightedRisk(risks), Rat(100, 1))))

Assessment ==
    [ timestamp            |-> now,
      risks                |-> Risks,
      alerts               |-> Alerts(Risks),
      recommendations      |-> Recommendations(Risks),
      overall_safety_score |-> SafetyScore(Risks) ]

generate_comprehensive_assessment ==
    /\ ret' = Call("generate_comprehensive_assessment", <<>>, Assessment)
    /\ UNCHANGED <<buffer_size, buffers, weights, alert_thresholds, now, pushed, others>>

get_data_summary ==
    /\ ret' = Call("get_data_summary", <<>>,
                   [ vision_entries  |-> Len(vision_buffer),
                     obd_entries     |-> Len(obd_buffer),
                     fatigue_entries |-> Len(fatigue_buffer),
                     last_update     |-> now,
                     fusion_weights  |-> weights ])
    /\ UNCHANGED <<buffer_size, buffers, weights, alert_thresholds, now, pushed, others>>

----------------------------------------------------------------------------
(* adjust_fusion_weights *)

\* sum(sensor_confidence.values())
RECURSIVE SumOver(_, _)
SumOver(dict, keys) ==
    IF keys = {} THEN 0
    ELSE LET k == CHOOSE x \in keys : TRUE
         IN  dict[k] + SumOver(dict, keys \ {k})

TotalConfidence(sensor_confidence) == SumOver(sensor_confidence, DOMAIN sensor_confidence)

\* the guard written "!= 0": a negative total is divided by as well
AdjustedWeightsNonZeroGuard(sensor_confidence) ==
    LET total_confidence == TotalConfidence(sensor_confidence)
    IN  IF total_confidence # 0
        THEN [ sensor \in DOMAIN weights |->
                 IF sensor \in DOMAIN sensor_confidence
                 THEN IF total_confidence > 0
                      THEN Rat(sensor_confidence[sensor], total_confidence)
                      ELSE Rat(-sensor_confidence[sensor], -total_confidence)
                 ELSE weights[sensor] ]
        ELSE weights

\* the quotient taken by len(sensor_confidence) instead of the total
AdjustedWeightsByCount(sensor_confidence) ==
    LET total_confidence == TotalConfidence(sensor_confidence)
    IN  IF total_confidence > 0
        THEN [ sensor \in DOMAIN weights |->
                 IF sensor \in DOMAIN sensor_confidence
                 THEN Rat(sensor_confidence[sensor], Cardinality(DOMAIN sensor_confidence))
                 ELSE weights[sensor] ]
        ELSE weights

AdjustedWeights(sensor_confidence) ==
    LET total_confidence == TotalConfidence(sensor_confidence)
    IN  IF total_confidence > 0
        THEN [ sensor \in DOMAIN weights |->
                 IF sensor \in DOMAIN sensor_confidence
                 THEN Rat(sensor_confidence[sensor], total_confidence)
                 ELSE weights[sensor] ]
        ELSE weights

adjust_fusion_weights(sensor_confidence) ==
    /\ weights' = AdjustedWeights(sensor_confidence)
    /\ ret' = Call("adjust_fusion_weights", sensor_confidence, None)
    /\ UNCHANGED <<buffer_size, buffers, alert_thresholds, now, pushed, others>>

----------------------------------------------------------------------------
(* The clock *)

NoCall == Call("none", <<>>, None)

Tick(seconds) ==
    /\ now + seconds <= MaxTime
    /\ now' = now + seconds
    /\ ret' = NoCall
    /\ UNCHANGED <<buffer_size, buffers, weights, alert_thresholds, pushed, others>>

----------------------------------------------------------------------------
(* Inputs *)

ObjectLists ==
    { <<>>,
      <<[distance |-> 5]>> }

VisionData ==
    [ lane_departure_warning : BOOLEAN,
      collision_warning      : {FALSE},
      detected_objects       : {<<>>},
      confidence             : {90} ]
    \cup
    [ lane_departure_warning : {FALSE},
      collision_warning      : {TRUE},
      detected_objects       : ObjectLists,
      confidence             : {90} ]

BehaviorAnalysis(aggressive_acceleration, excessive_speed) ==
    [ aggressive_acceleration |-> aggressive_acceleration,
      aggressive_braking      |-> FALSE,
      excessive_speed         |-> excessive_speed,
      engine_stress           |-> FALSE ]

ObdData ==
    { [speed |-> 50, rpm |-> 2000, throttle_position |-> 40,
       behavior_analysis |-> BehaviorAnalysis(FALSE, FALSE)],
      [speed |-> 90, rpm |-> 3000, throttle_position |-> 90,
       behavior_analysis |-> BehaviorAnalysis(TRUE, FALSE)],
      [speed |-> 130, rpm |-> 3000, throttle_position |-> 40,
       behavior_analysis |-> BehaviorAnalysis(FALSE, TRUE)] }

\* fatigue_score 150 is outside the documented range 0..100
FatigueData ==
    [ fatigue_score  : {80},
      blink_detected : {FALSE},
      yawn_detected  : BOOLEAN,
      ear            : {30},
      confidence     : {100} ]
    \cup
    [ fatigue_score  : {90, 150},
      blink_detected : {FALSE},
      yawn_detected  : {FALSE},
      ear            : {30},
      confidence     : {100} ]

\* every mapping from some of the sensors to a confidence in -1..MaxConf,
\* and one that also rates a sensor the engine does not know
SensorConfidences ==
    UNION { [keys -> -1 .. MaxConf] : keys \in SUBSET Sensors }
    \cup { [vision |-> 1, obd |-> 1, fatigue |-> 1, gps |-> 1] }

\* the mappings the full engine is driven with
FewConfidences ==
    { [vision |-> -1, obd |-> 2],
      [vision |-> 1, obd |-> 1, fatigue |-> 2] }

----------------------------------------------------------------------------
(* The engine *)

\* the weights and thresholds set by __init__
DefaultWeights == [vision |-> Rat(5, 10), obd |-> Rat(3, 10), fatigue |-> Rat(2, 10)]

DefaultThresholds ==
    [ collision_risk     |-> Rat(7, 10),
      lane_departure     |-> Rat(6, 10),
      driver_fatigue     |-> Rat(8, 10),
      aggressive_driving |-> Rat(7, 10) ]

\* a thread that is not inside a call
Idle == [pc |-> "idle"]

\* the state SensorFusion(buffer_size = n) and OBDReader() are constructed in
Constructed(n) ==
    /\ buffer_size = n
    /\ vision_buffer = <<>>
    /\ obd_buffer = <<>>
    /\ fatigue_buffer = <<>>
    /\ weights = DefaultWeights
    /\ alert_thresholds = DefaultThresholds
    /\ now = 0
    /\ pushed = [vision |-> <<>>, obd |-> <<>>, fatigue |-> <<>>]
    /\ ret = NoCall
    /\ reader = Idle
    /\ writer = Idle
    /\ disk = <<>>
    /\ data_buffer = <<>>

Init == \E n \in 1 .. MaxCapacity : Constructed(n)

TotalPushes == Len(pushed.vision) + Len(pushed.obd) + Len(pushed.fatigue)

IngestVision ==
    \E vision_data \in VisionData :
        TotalPushes < MaxPushes /\ add_vision_data(vision_data)

IngestObd ==
    \E obd_data \in ObdData :
        TotalPushes < MaxPushes /\ add_obd_data(obd_data)

IngestFatigue ==
    \E fatigue_data \in FatigueData :
        TotalPushes < MaxPushes /\ add_fatigue_data(fatigue_data)

AdjustFew == \E sensor_confidence \in FewConfidences : adjust_fusion_weights(sensor_confidence)

AdjustAny == \E sensor_confidence \in SensorConfidences : adjust_fusion_weights(sensor_confidence)

Advance == Tick(MaxTime)

\* The data path: ingestion on the three channels, assessment, the clock, and
\* a few weight adjustments (one of them with a negative confidence).  The
\* weight registry under every confidence mapping is SpecWeights below.
Next ==
    \/ IngestVision
    \/ IngestObd
    \/ IngestFatigue
    \/ AdjustFew
    \/ generate_comprehensive_assessment
    \/ Advance

Spec == Init /\ [][Next]_vars

\* the weight registry alone, under every confidence mapping
NextWeights ==
    \/ AdjustAny
    \/ get_data_summary

SpecWeights == Init /\ [][NextWeights]_vars

----------------------------------------------------------------------------
(* Properties *)

\* the last n items of seq, all of it when it has no more than n
LastN(seq, n) ==
    IF Len(seq) <= n THEN seq ELSE SubSeq(seq, Len(seq) - n + 1, Len(seq))

SumWeights == RAdd(RAdd(weights["vision"], weights["obd"]), weights["fatigue"])

Assessed == ret.op = "generate_comprehensive_assessment"
Adjusted == ret.op = "adjust_fusion_weights"

\* C1: whatever calls were made on an engine of capacity buffer_size >= 1,
\* each history holds at most buffer_size entries, and they are the last
\* buffer_size entries appended to that channel, oldest first (all of them
\* while no more than buffer_size were appended).
C1_BoundInvariant ==
    /\ buffer_size >= 1
    /\ Len(vision_buffer) <= buffer_size
    /\ Len(obd_buffer) <= buffer_size
    /\ Len(fatigue_buffer) <= buffer_size
    /\ vision_buffer = LastN(pushed.vision, buffer_size)
    /\ obd_buffer = LastN(pushed.obd, buffer_size)
    /\ fatigue_buffer = LastN(pushed.fatigue, buffer_size)

\* a channel of capacity 2 that has overflowed, with three different entries
C1_Overflowed ==
    /\ buffer_size = 2
    /\ Len(pushed.obd) = 3
    /\ pushed.obd[1] # pushed.obd[2]
    /\ pushed.obd[2] # pushed.obd[3]
    /\ obd_buffer = <<pushed.obd[2], pushed.obd[3]>>

InRangeVision(entry) == entry.confidence \in 0 .. 100
InRangeFatigue(entry) ==
    entry.confidence \in 0 .. 100 /\ entry.fatigue_score \in 0 .. 100

AllSamplesInRange ==
    /\ \A i \in DOMAIN pushed.vision : InRangeVision(pushed.vision[i])
    /\ \A i \in DOMAIN pushed.fatigue : InRangeFatigue(pushed.fatigue[i])

InUnitInterval(risk) == RLe(Zero, risk) /\ RLe(risk, One)

\* C3: when every ingested sample had its fields in range, whatever weight
\* adjustments were made, each of the four risks of an assessment lies in
\* [0, 1].  (Violated: a negative weight makes the collision risk negative.)
C3_RisksInUnitInterval ==
    (Assessed /\ AllSamplesInRange) =>
        /\ InUnitInterval(ret.value.risks.collision)
        /\ InUnitInterval(ret.value.risks.lane_departure)
        /\ InUnitInterval(ret.value.risks.driver_fatigue)
        /\ InUnitInterval(ret.value.risks.aggressive_driving)

\* C4 as stated: after adjust_fusion_weights with a mapping of positive
\* total, the three weights sum to 1.  (Violated: a mapping that leaves a
\* sensor out keeps that sensor's old weight.)
C4_AnyPositiveTotalSumsToOne ==
    (Adjusted /\ TotalConfidence(ret.arg) > 0) => SumWeights = One

\* C4 amended: after adjust_fusion_weights with a mapping of positive total
\* that rates exactly the three sensors vision, obd and fatigue, the three
\* weights sum to 1, whatever they were before.
C4_FullMappingSumsToOne ==
    (Adjusted /\ TotalConfidence(ret.arg) > 0 /\ DOMAIN ret.arg = Sensors) =>
        SumWeights = One

\* a full mapping with a negative confidence was applied
C4_FullMappingApplied ==
    /\ Adjusted
    /\ ret.arg = [vision |-> 1, obd |-> -1, fatigue |-> 1]
    /\ weights = [vision |-> One, obd |-> Rat(-1, 1), fatigue |-> One]

\* C5: adjust_fusion_weights with a mapping whose values sum to 0 or less
\* (the empty mapping included) returns normally and leaves every weight as
\* it was.
C5_NonPositiveTotalIsNoOp ==
    [][ (ret'.op = "adjust_fusion_weights" /\ TotalConfidence(ret'.arg) <= 0) =>
            (weights' = weights /\ ret'.value = None) ]_vars

\* a mapping of negative total was passed to an engine whose weights had
\* been changed, and they are still the changed ones
C5_NoOpOnChangedWeights ==
    /\ Adjusted
    /\ TotalConfidence(ret.arg) < 0
    /\ weights # DefaultWeights

\* C6: after any sequence of weight adjustments from the default weights,
\* each of the three weights is non-negative.  (Violated: a negative
\* confidence in a mapping of positive total gives a negative weight.)
C6_WeightsNonNegative ==
    \A sensor \in Sensors : RLe(Zero, weights[sensor])

Clamp01(x) == RMax(Zero, RMin(x, One))

\* C7: in an assessment the two channels contribute to the collision risk
\* independently: with no vision entry but an obd entry the risk is
\* clamp(obd_risk * weights.obd, 0, 1) of the latest obd entry, with no obd
\* entry but a vision entry it is clamp(vision_risk * weights.vision, 0, 1)
\* of the latest vision entry, and it is forced to 0 only when both
\* histories are empty.  (Violated: the risk is 0 as soon as either history
\* is empty.)
C7_ChannelsContributeIndependently ==
    Assessed =>
        /\ (vision_buffer = <<>> /\ obd_buffer # <<>>) =>
              ret.value.risks.collision =
                 Clamp01(RMul(ObdRisk(obd_buffer[Len(obd_buffer)]), weights["obd"]))
        /\ (obd_buffer = <<>> /\ vision_buffer # <<>>) =>
              ret.value.risks.collision =
                 Clamp01(RMul(VisionRisk(vision_buffer[Len(vision_buffer)]),
                              weights["vision"]))
        /\ (vision_buffer = <<>> /\ obd_buffer = <<>>) =>
              ret.value.risks.collision = Zero

\* C8: in every assessment the overall safety score is
\* max(0, 100 - 100 * (0.4 collision + 0.2 lane_departure
\*                     + 0.3 driver_fatigue + 0.1 aggressive_driving))
\* of the risks of that assessment, and lies in [0, 100].  (Violated: a
\* negative collision risk lifts the score above 100.)
C8_ScoreFormulaAndRange ==
    Assessed =>
        LET r == ret.value.risks
            weighted ==
                RAdd(RAdd(RMul(Rat(4, 10), r.collision),
                          RMul(Rat(2, 10), r.lane_departure)),
                     RAdd(RMul(Rat(3, 10), r.driver_fatigue),
                          RMul(Rat(1, 10), r.aggressive_driving)))
        IN  /\ ret.value.overall_safety_score =
                  RMax(Zero, RSub(Rat(100, 1), RMul(Rat(100, 1), weighted)))
            /\ RLe(Zero, ret.value.overall_safety_score)
            /\ RLe(ret.value.overall_safety_score, Rat(100, 1))

\* the alerts of the given type in an assessment's alert sequence
AlertsOfType(alerts, type) == {i \in DOMAIN alerts : alerts[i].type = type}

\* an assessment has the alert of a domain exactly when the risk is strictly
\* above the threshold, once, with the given severity and message
AlertIffAbove(assessment, risk, threshold, type, severity, message) ==
    /\ RLt(threshold, risk) <=> AlertsOfType(assessment.alerts, type) # {}
    /\ Cardinality(AlertsOfType(assessment.alerts, type)) <= 1
    /\ \A i \in AlertsOfType(assessment.alerts, type) :
          /\ assessment.alerts[i].severity = severity
          /\ assessment.alerts[i].message = message

\* C9: an assessment holds the alert of a domain if and only if that
\* domain's risk is strictly greater than its threshold (a risk equal to the
\* threshold gives none), and then exactly once, with the fixed severity
\* (collision HIGH, lane departure MEDIUM, fatigue HIGH, aggressive driving
\* MEDIUM) and the fixed message.
C9_AlertIffStrictlyAboveThreshold ==
    Assessed =>
        LET a == ret.value
        IN  /\ AlertIffAbove(a, a.risks.collision, alert_thresholds["collision_risk"],
                   "COLLISION_WARNING", "HIGH",
                   "Collision risk detected! Maintain safe distance.")
            /\ AlertIffAbove(a, a.risks.lane_departure, alert_thresholds["lane_departure"],
                   "LANE_DEPARTURE", "MEDIUM",
                   "Lane departure detected. Return to lane.")
            /\ AlertIffAbove(a, a.risks.driver_fatigue, alert_thresholds["driver_fatigue"],
                   "FATIGUE_WARNING", "HIGH",
                   "Driver fatigue detected. Take a break.")
            /\ AlertIffAbove(a, a.risks.aggressive_driving,
                   alert_thresholds["aggressive_driving"],
                   "AGGRESSIVE_DRIVING", "MEDIUM",
                   "Aggressive driving detected. Drive more calmly.")
            /\ Len(a.alerts) =
                  Cardinality({t \in {"COLLISION_WARNING", "LANE_DEPARTURE",
                                      "FATIGUE_WARNING", "AGGRESSIVE_DRIVING"} :
                                  AlertsOfType(a.alerts, t) # {}})

\* an assessment whose fatigue risk equals the fatigue threshold and has no
\* fatigue alert, while its lane departure risk is above the lane threshold
\* and has the lane alert
C9_AtThresholdNoAlert ==
    /\ Assessed
    /\ ret.value.risks.driver_fatigue = alert_thresholds["driver_fatigue"]
    /\ AlertsOfType(ret.value.alerts, "FATIGUE_WARNING") = {}
    /\ RLt(alert_thresholds["lane_departure"], ret.value.risks.lane_departure)
    /\ AlertsOfType(ret.value.alerts, "LANE_DEPARTURE") # {}

\* C10: an ingest call whose sample has a field outside its documented
\* range is refused with an InvalidSample error, and leaves every history as
\* it was.  (Violated: the sample is appended like any other.)
C10_OutOfRangeSampleRejected ==
    [][ (/\ ret'.op = "add_fatigue_data"
         /\ ret'.arg["fatigue_score"] \notin 0 .. 100) =>
            (/\ ret'.value = "InvalidSample"
             /\ vision_buffer' = vision_buffer
             /\ obd_buffer' = obd_buffer
             /\ fatigue_buffer' = fatigue_buffer) ]_vars

\* the histories of the worked example: one vision entry with a collision
\* warning and an object at 5 m, one obd entry at 90 km/h with aggressive
\* acceleration, nothing else ever ingested, weights as constructed
C13_Scenario ==
    /\ weights = DefaultWeights
    /\ Len(pushed.vision) = 1
    /\ pushed.vision[1].collision_warning
    /\ pushed.vision[1].closest_object_distance = 5
    /\ Len(pushed.obd) = 1
    /\ pushed.obd[1].speed = 90
    /\ pushed.obd[1].aggressive_acceleration
    /\ pushed.fatigue = <<>>

\* C13: on a fresh engine with default weights, after one vision sample with
\* a collision warning and the closest object at 5 m and one bus sample at
\* 90 km/h with aggressive acceleration, the assessment's collision risk is
\* (0.8 + 0.6*0.75)*0.5 + (0.3*0.4 + 0.3)*0.3 = 0.751 and its alerts include
\* COLLISION_WARNING with severity HIGH.
C13_WorkedExampleCollisionRisk ==
    (Assessed /\ C13_Scenario) =>
        /\ ret.value.risks.collision = Rat(751, 1000)
        /\ \E i \in DOMAIN ret.value.alerts :
              /\ ret.value.alerts[i].type = "COLLISION_WARNING"
              /\ ret.value.alerts[i].severity = "HIGH"

\* an assessment made in the worked example
C13_WorkedExampleAssessed ==
    /\ Assessed
    /\ C13_Scenario
    /\ ret.value.risks.collision = Rat(751, 1000)

----------------------------------------------------------------------------
(* Eviction on an engine of the default capacity *)

\* bus samples with excessive speed flagged and with no flag at all
EvictionObdData == {obd_data \in ObdData : ~obd_data["behavior_analysis"]["aggressive_acceleration"]}

IngestObdPastCapacity ==
    \E obd_data \in EvictionObdData :
        Len(pushed.obd) < buffer_size + ExtraPushes /\ add_obd_data(obd_data)

InitDefault == Constructed(DEFAULT_BUFFER_SIZE)

NextEviction ==
    \/ IngestObdPastCapacity
    \/ generate_comprehensive_assessment

SpecEviction == InitDefault /\ [][NextEviction]_vars

\* an obd entry with any of the four behaviour flags
Flagged(entry) ==
    \/ entry.aggressive_acceleration
    \/ entry.aggressive_braking
    \/ entry.excessive_speed
    \/ entry.engine_stress

\* capacity + 1 bus samples were ingested, the first with excessive speed
\* flagged, the others with no flag
C14_Scenario ==
    /\ buffer_size = DEFAULT_BUFFER_SIZE
    /\ Len(pushed.obd) = DEFAULT_BUFFER_SIZE + 1
    /\ pushed.obd[1].excessive_speed
    /\ \A i \in 2 .. Len(pushed.obd) : ~Flagged(pushed.obd[i])

\* C14: after capacity + 1 bus samples went into a history of capacity 10,
\* the first with excessive_speed set and the ten that follow with no flag,
\* the aggressive driving risk is exactly 0, both as computed on the state and
\* as returned by an assessment: the flagged sample was evicted.
C14_EvictedFlagHasNoInfluence ==
    C14_Scenario =>
        /\ calculate_aggressive_driving_risk = Zero
        /\ Assessed => ret.value.risks.aggressive_driving = Zero

\* an assessment made after the flagged first sample was evicted
C14_AssessedAfterEviction ==
    /\ C14_Scenario
    /\ Assessed
    /\ Len(obd_buffer) = DEFAULT_BUFFER_SIZE
    /\ ret.value.risks.aggressive_driving = Zero

----------------------------------------------------------------------------
(* Lane departure risk as the clock advances second by second *)

LaneVisionData == {vision_data \in VisionData : ~vision_data["collision_warning"]}

IngestLane ==
    \E vision_data \in LaneVisionData :
        Len(pushed.vision) < MaxPushes /\ add_vision_data(vision_data)

TickOne == Tick(1)

NextLane ==
    \/ IngestLane
    \/ TickOne
    \/ generate_comprehensive_assessment

SpecLane == Init /\ [][NextLane]_vars

\* the age of the i-th entry of the vision history
Age(i) == now - vision_buffer[i].timestamp

\* the lane_departure entries met scanning newest-first before the first
\* entry older than WINDOW seconds
ScannedWarnings ==
    {i \in DOMAIN vision_buffer :
        /\ vision_buffer[i].lane_departure
        /\ \A j \in i .. Len(vision_buffer) : Age(j) <= WINDOW}

\* the lane_departure entries at most WINDOW seconds old
WarningsInWindow ==
    {i \in DOMAIN vision_buffer : vision_buffer[i].lane_departure /\ Age(i) <= WINDOW}

NonDecreasingTimestamps ==
    \A i, j \in DOMAIN vision_buffer :
        i <= j => vision_buffer[i].timestamp <= vision_buffer[j].timestamp

\* C19: the lane departure risk is 0 on an empty vision history; otherwise
\* it is min(count / len(vision history), 1), count being the number of
\* lane_departure entries met newest-first before the first entry older than
\* 5 seconds and the denominator the whole buffer length; with non-decreasing
\* timestamps count is the number of lane_departure entries aged at most 5
\* seconds.  An assessment returns that value.
C19_LaneDepartureRisk ==
    /\ vision_buffer = <<>> => calculate_lane_departure_risk = Zero
    /\ vision_buffer # <<>> =>
          calculate_lane_departure_risk =
              RMin(Rat(Cardinality(ScannedWarnings), Len(vision_buffer)), One)
    /\ NonDecreasingTimestamps => ScannedWarnings = WarningsInWindow
    /\ Assessed => ret.value.risks.lane_departure = calculate_lane_departure_risk

\* an assessment of a history holding a lane departure aged exactly 5
\* seconds, which counts, and one aged more, which only adds to the
\* denominator
C19_OldEntryOnlyInDenominator ==
    /\ Assessed
    /\ Len(vision_buffer) = 2
    /\ vision_buffer[1].lane_departure /\ Age(1) > WINDOW
    /\ vision_buffer[2].lane_departure /\ Age(2) = WINDOW
    /\ ret.value.risks.lane_departure = Rat(1, 2)

----------------------------------------------------------------------------
(* Driver fatigue risk, with yawns entering and leaving the history *)

\* fatigue_score -50 is outside the documented range 0..100
FatigueScores == {-50, 30, 90}

YawnFatigueData ==
    [ fatigue_score  : FatigueScores,
      blink_detected : {FALSE},
      yawn_detected  : BOOLEAN,
      ear            : {30},
      confidence     : {100} ]

IngestYawn ==
    \E fatigue_data \in YawnFatigueData :
        Len(pushed.fatigue) < buffer_size + ExtraPushes /\ add_fatigue_data(fatigue_data)

InitFatigue == Constructed(MaxCapacity + 1)

NextFatigue ==
    \/ IngestYawn
    \/ generate_comprehensive_assessment

SpecFatigue == InitFatigue /\ [][NextFatigue]_vars

\* the yawning entries of the whole fatigue history
Yawns == {i \in DOMAIN fatigue_buffer : fatigue_buffer[i].yawn_detected}

\* latest.fatigue_score / 100 + bonus, before any clamping
UnclampedFatigueRisk ==
    RAdd(Rat(fatigue_buffer[Len(fatigue_buffer)].fatigue_score, 100),
         IF Cardinality(Yawns) > 2 THEN Rat(2, 10) ELSE Zero)

\* C20: the driver fatigue risk is 0 on an empty fatigue history; otherwise
\* it is clamp(latest.fatigue_score / 100 + bonus, 0, 1), bonus being 0.2 when
\* strictly more than 2 entries of the whole current buffer have yawn_detected
\* and 0 otherwise.  An assessment returns that value.  (Violated: the code
\* caps at 1 and has no floor at 0.)
C20_FatigueRiskClamped ==
    /\ fatigue_buffer = <<>> => calculate_driver_fatigue_risk = Zero
    /\ fatigue_buffer # <<>> =>
          calculate_driver_fatigue_risk = Clamp01(UnclampedFatigueRisk)
    /\ Assessed => ret.value.risks.driver_fatigue = calculate_driver_fatigue_risk

\* what the code computes: the same sum, capped at 1 only
FatigueRiskCappedOnly ==
    /\ fatigue_buffer = <<>> => calculate_driver_fatigue_risk = Zero
    /\ fatigue_buffer # <<>> =>
          calculate_driver_fatigue_risk = RMin(UnclampedFatigueRisk, One)
    /\ Assessed => ret.value.risks.driver_fatigue = calculate_driver_fatigue_risk

\* the claim's formula on the histories whose latest score is in range
FatigueRiskClampedInRange ==
    (fatigue_buffer # <<>> /\ fatigue_buffer[Len(fatigue_buffer)].fatigue_score \in 0 .. 100)
        => calculate_driver_fatigue_risk = Clamp01(UnclampedFatigueRisk)

----------------------------------------------------------------------------
(* OBDReader: the reading loop and analyze_driving_behavior *)

\* the commands of self.commands that analyze_driving_behavior reads
ObdCommands == {"RPM", "SPEED", "THROTTLE_POS"}

\* the values a query of a command answers with
ObdValues(cmd_name) ==
    IF cmd_name = "SPEED" THEN {20, 21, 120, 121}
    ELSE IF cmd_name = "RPM" THEN {1000, 4000, 4001}
    ELSE {80, 81}

ObdUnit(cmd_name) ==
    IF cmd_name = "SPEED" THEN "kph"
    ELSE IF cmd_name = "RPM" THEN "revolutions_per_minute"
    ELSE "percent"

\* dict[key] = value
DictSet(dict, key, value) ==
    [k \in DOMAIN dict \cup {key} |-> IF k = key THEN value ELSE dict[k]]

\* one query of _read_loop that answers with a value
_read_loop ==
    \E cmd_name \in ObdCommands :
        \E value \in ObdValues(cmd_name) :
            /\ data_buffer' = DictSet(data_buffer, cmd_name,
                                  [value |-> value, unit |-> ObdUnit(cmd_name),
                                   timestamp |-> now])
            /\ ret' = Call("_read_loop", cmd_name, None)
            /\ UNCHANGED <<buffer_size, buffers, weights, alert_thresholds, now, pushed,
                           reader, writer, disk>>

\* get_speed, get_rpm, get_throttle_position: None for a command that has no
\* entry in data_buffer
get_value(cmd_name) ==
    IF cmd_name \in DOMAIN data_buffer THEN data_buffer[cmd_name].value ELSE None

\* the rules with the bounds included
DrivingBehaviorInclusive(speed, rpm, throttle) ==
    [ aggressive_acceleration |-> throttle >= 80 /\ speed >= 20,
      aggressive_braking      |-> FALSE,
      excessive_speed         |-> speed >= 120,
      engine_stress           |-> rpm >= 4000 ]

\* the analysis of three readings that are all there
DrivingBehavior(speed, rpm, throttle) ==
    [ aggressive_acceleration |-> throttle > 80 /\ speed > 20,
      aggressive_braking      |-> FALSE,
      excessive_speed         |-> speed > 120,
      engine_stress           |-> rpm > 4000 ]

NoBehavior ==
    [ aggressive_acceleration |-> FALSE,
      aggressive_braking      |-> FALSE,
      excessive_speed         |-> FALSE,
      engine_stress           |-> FALSE ]

Analysis ==
    LET speed == get_value("SPEED")
        rpm == get_value("RPM")
        throttle == get_value("THROTTLE_POS")
    IN  IF \E cmd_name \in ObdCommands : cmd_name \notin DOMAIN data_buffer
        THEN NoBehavior
        ELSE DrivingBehavior(speed, rpm, throttle)

analyze_driving_behavior ==
    /\ ret' = Call("analyze_driving_behavior", <<>>, Analysis)
    /\ UNCHANGED <<buffer_size, buffers, weights, alert_thresholds, now, pushed, others>>

NextObd ==
    \/ _read_loop
    \/ analyze_driving_behavior

SpecObd == Init /\ [][NextObd]_vars

Analyzed == ret.op = "analyze_driving_behavior"

Available(cmd_name) == cmd_name \in DOMAIN data_buffer

\* C18 as stated: each flag follows its own rule whenever the readings that
\* rule depends on are available: excessive_speed whenever speed > 120,
\* engine_stress whenever rpm > 4000, aggressive_acceleration whenever
\* throttle > 80 and speed > 20.  (Violated: with any of the three readings
\* missing no flag is set.)
C18_RulesIndependent ==
    Analyzed =>
        /\ (Available("SPEED") /\ data_buffer["SPEED"].value > 120)
              => ret.value.excessive_speed
        /\ (Available("RPM") /\ data_buffer["RPM"].value > 4000)
              => ret.value.engine_stress
        /\ (/\ Available("THROTTLE_POS") /\ Available("SPEED")
            /\ data_buffer["THROTTLE_POS"].value > 80
            /\ data_buffer["SPEED"].value > 20)
              => ret.value.aggressive_acceleration

\* C18, amended: when speed, rpm and throttle are all three available,
\* excessive_speed is true exactly when speed > 120, engine_stress exactly
\* when rpm > 4000, aggressive_acceleration exactly when throttle > 80 and
\* speed > 20, and aggressive_braking is false; when any of the three is
\* missing all four flags are false.
C18_RulesWhenAllAvailable ==
    Analyzed =>
        IF Available("SPEED") /\ Available("RPM") /\ Available("THROTTLE_POS")
        THEN /\ ret.value.excessive_speed <=> data_buffer["SPEED"].value > 120
             /\ ret.value.engine_stress <=> data_buffer["RPM"].value > 4000
             /\ ret.value.aggressive_acceleration <=>
                   (/\ data_buffer["THROTTLE_POS"].value > 80
                    /\ data_buffer["SPEED"].value > 20)
             /\ ~ret.value.aggressive_braking
        ELSE /\ ~ret.value.excessive_speed
             /\ ~ret.value.engine_stress
             /\ ~ret.value.aggressive_acceleration
             /\ ~ret.value.aggressive_braking

\* an analysis of three readings, the speed just above its bound and the
\* rpm exactly at its bound
C18_AnalyzedAtTheBounds ==
    /\ Analyzed
    /\ Available("SPEED") /\ data_buffer["SPEED"].value = 121
    /\ Available("RPM") /\ data_buffer["RPM"].value = 4000
    /\ Available("THROTTLE_POS") /\ data_buffer["THROTTLE_POS"].value = 81
    /\ ret.value.excessive_speed
    /\ ~ret.value.engine_stress
    /\ ret.value.aggressive_acceleration

----------------------------------------------------------------------------
(* export_data, and the whole interface called from one thread *)

\* json.dump writes float('inf') as Infinity
JsonNumber(x) == IF x = INF THEN "Infinity" ELSE x

JsonVisionEntry(entry) ==
    [entry EXCEPT !.closest_object_distance = JsonNumber(@)]

\* the dict export_data builds, as json.dump writes it
ExportDocument ==
    [ vision_data  |-> [i \in DOMAIN vision_buffer |-> JsonVisionEntry(vision_buffer[i])],
      obd_data     |-> obd_buffer,
      fatigue_data |-> fatigue_buffer,
      weights      |-> weights,
      thresholds   |-> alert_thresholds ]

\* a file that open(filepath, 'w') created and json.dump did not finish
Truncated == "truncated"

\* a path in the working directory, and one in a directory that is not there
ExportPaths == {"fusion_data.json", "/no_such_dir/fusion_data.json"}

\* open(filepath, 'w') raises OSError (FileNotFoundError) on the second
\* path; on the first the dump completes, or the write fails with OSError
\* part way.  Nothing catches the error: the caller gets the OSError.
export_data(filepath) ==
    /\ \/ /\ filepath = "fusion_data.json"
          /\ disk' = DictSet(disk, filepath, ExportDocument)
          /\ ret' = Call("export_data", filepath, None)
       \/ /\ filepath = "fusion_data.json"
          /\ disk' = DictSet(disk, filepath, Truncated)
          /\ ret' = Call("export_data", filepath, "OSError")
       \/ /\ filepath # "fusion_data.json"
          /\ disk' = disk
          /\ ret' = Call("export_data", filepath, "OSError")
    /\ UNCHANGED <<buffer_size, buffers, weights, alert_thresholds, now, pushed,
                   reader, writer, data_buffer>>

ApiVisionData == {vision_data \in VisionData : vision_data["collision_warning"]}
ApiObdData == {obd_data \in ObdData : obd_data["behavior_analysis"]["excessive_speed"]}
ApiFatigueData == {fatigue_data \in FatigueData : fatigue_data["fatigue_score"] = 90}

ApiVision ==
    \E vision_data \in ApiVisionData :
        TotalPushes < MaxPushes /\ add_vision_data(vision_data)

ApiObd ==
    \E obd_data \in ApiObdData :
        TotalPushes < MaxPushes /\ add_obd_data(obd_data)

ApiFatigue ==
    \E fatigue_data \in ApiFatigueData :
        TotalPushes < MaxPushes /\ add_fatigue_data(fatigue_data)

Export == \E filepath \in ExportPaths : export_data(filepath)

\* every public method of the engine, called one after the other
NextApi ==
    \/ ApiVision
    \/ ApiObd
    \/ ApiFatigue
    \/ AdjustFew
    \/ generate_comprehensive_assessment
    \/ get_data_summary
    \/ Export

SpecApi == Init /\ [][NextApi]_vars

\* the document at a path has the five sections, holding the histories in
\* order, the weights and the thresholds of the engine
HoldsCurrentState(document) ==
    /\ DOMAIN document = {"vision_data", "obd_data", "fatigue_data", "weights", "thresholds"}
    /\ Len(document.vision_data) = Len(vision_buffer)
    /\ \A i \in DOMAIN vision_buffer :
          document.vision_data[i] = JsonVisionEntry(vision_buffer[i])
    /\ document.obd_data = obd_buffer
    /\ document.fatigue_data = fatigue_buffer
    /\ document.weights = weights
    /\ document.thresholds = alert_thresholds

\* C16: export_data never changes the in-memory state: whether the write
\* succeeds or fails, the three histories, the weights and the thresholds are
\* the same before and after; a failed write reaches the caller as a
\* PersistenceError; a successful one leaves at the path a document with
\* exactly the sections vision_data, obd_data, fatigue_data, weights and
\* thresholds holding the current histories, weights and thresholds.
\* (Violated: the failure reaches the caller as the OSError that open or
\* write raised.)
C16_ExportKeepsStateReportsPersistenceError ==
    [][ ret'.op = "export_data" =>
            /\ vision_buffer' = vision_buffer
            /\ obd_buffer' = obd_buffer
            /\ fatigue_buffer' = fatigue_buffer
            /\ weights' = weights
            /\ alert_thresholds' = alert_thresholds
            /\ ret'.value # None => ret'.value = "PersistenceError"
            /\ ret'.value = None => HoldsCurrentState(disk'[ret'.arg]) ]_vars

\* what does hold of export_data: the state is kept, and a call that returns
\* leaves the document of the current state at the path
ExportKeepsStateAndWritesSections ==
    [][ ret'.op = "export_data" =>
            /\ vision_buffer' = vision_buffer
            /\ obd_buffer' = obd_buffer
            /\ fatigue_buffer' = fatigue_buffer
            /\ weights' = weights
            /\ alert_thresholds' = alert_thresholds
            /\ ret'.value # None => ret'.value = "OSError"
            /\ ret'.value = None => HoldsCurrentState(disk'[ret'.arg]) ]_vars

\* C17: histories and weights are changed only by the add_*_data calls and
\* adjust_fusion_weights: an assessment and a summary leave the three
\* histories, the weights and the thresholds as they were; each add_*_data
\* call changes its own channel's history and leaves the two others, the
\* weights and the thresholds as they were; adjust_fusion_weights changes no
\* history and no threshold.
C17_FrameOfEachOperation ==
    [][ /\ ret'.op \in {"generate_comprehensive_assessment", "get_data_summary"} =>
              /\ vision_buffer' = vision_buffer
              /\ obd_buffer' = obd_buffer
              /\ fatigue_buffer' = fatigue_buffer
              /\ weights' = weights
              /\ alert_thresholds' = alert_thresholds
        /\ ret'.op = "add_vision_data" =>
              /\ obd_buffer' = obd_buffer
              /\ fatigue_buffer' = fatigue_buffer
              /\ weights' = weights
              /\ alert_thresholds' = alert_thresholds
        /\ ret'.op = "add_obd_data" =>
              /\ vision_buffer' = vision_buffer
              /\ fatigue_buffer' = fatigue_buffer
              /\ weights' = weights
              /\ alert_thresholds' = alert_thresholds
        /\ ret'.op = "add_fatigue_data" =>
              /\ vision_buffer' = vision_buffer
              /\ obd_buffer' = obd_buffer
              /\ weights' = weights
              /\ alert_thresholds' = alert_thresholds
        /\ ret'.op = "adjust_fusion_weights" =>
              /\ vision_buffer' = vision_buffer
              /\ obd_buffer' = obd_buffer
              /\ fatigue_buffer' = fatigue_buffer
              /\ alert_thresholds' = alert_thresholds ]_vars

\* every kind of call was made on histories that hold entries: an obd entry
\* was appended next to a vision and a fatigue entry, under adjusted weights
C17_ObdAppendedAmongOthers ==
    /\ ret.op = "add_obd_data"
    /\ vision_buffer # <<>>
    /\ fatigue_buffer # <<>>
    /\ obd_buffer # <<>>
    /\ weights # DefaultWeights

----------------------------------------------------------------------------
(* Collision risk against the distance of the closest object *)

\* distances of the one detected object, in metres, over 0..20
ObjectDistances == {0, 5, 10, 20}

DistanceVisionData ==
    { [ lane_departure_warning |-> FALSE,
        collision_warning      |-> warning,
        detected_objects       |-> <<[distance |-> distance]>>,
        confidence             |-> 90 ] :
        warning \in BOOLEAN, distance \in ObjectDistances }

IngestDistance ==
    \E vision_data \in DistanceVisionData :
        TotalPushes < MaxPushes /\ add_vision_data(vision_data)

NextCollision ==
    \/ IngestDistance
    \/ ApiObd
    \/ AdjustFew
    \/ generate_comprehensive_assessment

SpecCollision == Init /\ [][NextCollision]_vars

\* the distance of the object of a sample of DistanceVisionData
SampleDistance(vision_data) == vision_data["detected_objects"][1]["distance"]

\* a vision sample was just ingested next to a bus sample
VisionSampleIngested ==
    /\ ret.op = "add_vision_data"
    /\ ret.arg \in DistanceVisionData
    /\ obd_buffer # <<>>

\* the collision risk the engine would return had the sample just ingested
\* been this other one: same bus sample, same weights
RiskWith(vision_data) == TotalRisk(VisionEntry(vision_data), obd_buffer[Len(obd_buffer)])

\* C15: with the latest bus sample and the weights fixed, the collision risk
\* does not increase with the distance of the closest object over 0..20 m, a
\* smaller distance giving a strictly larger risk unless the result is at the
\* cap of 1, and a sample with the collision warning never gives a lower risk
\* than the same sample without it.  (Violated: an object at distance 0 is
\* dropped, and a negative vision weight reverses the order.)
C15_CollisionRiskMonotone ==
    VisionSampleIngested =>
        \A other \in DistanceVisionData :
            /\ (/\ other["collision_warning"] = ret.arg["collision_warning"]
                /\ SampleDistance(other) < SampleDistance(ret.arg))
                  => \/ RLt(calculate_collision_risk, RiskWith(other))
                     \/ (calculate_collision_risk = One /\ RiskWith(other) = One)
            /\ (/\ SampleDistance(other) = SampleDistance(ret.arg)
                /\ other["collision_warning"]
                /\ ~ret.arg["collision_warning"])
                  => RLe(calculate_collision_risk, RiskWith(other))

\* the same comparison where the vision weight is positive and neither
\* object is at distance 0
CollisionRiskMonotoneOnStoredDistance ==
    (VisionSampleIngested /\ weights["vision"].n > 0 /\ SampleDistance(ret.arg) # 0) =>
        \A other \in DistanceVisionData :
            /\ (/\ other["collision_warning"] = ret.arg["collision_warning"]
                /\ SampleDistance(other) # 0
                /\ SampleDistance(other) < SampleDistance(ret.arg))
                  => \/ RLt(calculate_collision_risk, RiskWith(other))
                     \/ (calculate_collision_risk = One /\ RiskWith(other) = One)
            /\ (/\ SampleDistance(other) = SampleDistance(ret.arg)
                /\ other["collision_warning"]
                /\ ~ret.arg["collision_warning"])
                  => RLe(calculate_collision_risk, RiskWith(other))

\* the order reversed by nothing but the dropped distance: default weights,
\* an object at 5 m, and a lower risk for the same object at 0 m
DistanceZeroLowersRisk ==
    /\ VisionSampleIngested
    /\ weights = DefaultWeights
    /\ SampleDistance(ret.arg) = 5
    /\ \E other \in DistanceVisionData :
          /\ other["collision_warning"] = ret.arg["collision_warning"]
          /\ SampleDistance(other) = 0
          /\ RLt(RiskWith(other), calculate_collision_risk)

----------------------------------------------------------------------------
(* Threads: generate_comprehensive_assessment and adjust_fusion_weights step
   by step, with the add_*_data calls of other threads in between.  The engine
   takes no lock; a step is what runs between two points where the
   interpreter can switch threads and another thread's call can matter. *)

engine == <<buffer_size, buffers, weights, alert_thresholds, now, pushed>>

\* a step inside generate_comprehensive_assessment: only its locals change
ReaderStep(pc, next) ==
    /\ reader.pc = pc
    /\ reader' = next
    /\ UNCHANGED <<engine, ret, writer, disk, data_buffer>>

\* what a call that raises leaves in place of a return value
Raise(error) == [error |-> error]

\* an exception leaves generate_comprehensive_assessment
ReaderRaises(pc, error) ==
    /\ reader.pc = pc
    /\ reader' = Idle
    /\ ret' = Call("generate_comprehensive_assessment", <<>>, Raise(error))
    /\ UNCHANGED <<engine, writer, disk, data_buffer>>

\* the call: 'timestamp': time.time()
assessment_begin ==
    ReaderStep("idle", [pc |-> "collision", timestamp |-> now])

\* calculate_collision_risk up to the risks of the two latest entries
collision_read_entries ==
    ReaderStep("collision",
        IF vision_buffer = <<>> \/ obd_buffer = <<>>
        THEN [pc |-> "lane", timestamp |-> reader.timestamp, collision |-> Zero]
        ELSE [pc |-> "collision_vision_weight", timestamp |-> reader.timestamp,
              vision_risk |-> VisionRisk(vision_buffer[Len(vision_buffer)]),
              obd_risk |-> ObdRisk(obd_buffer[Len(obd_buffer)])])

\* vision_risk * self.weights['vision']
collision_read_vision_weight ==
    ReaderStep("collision_vision_weight",
        [pc |-> "collision_obd_weight", timestamp |-> reader.timestamp,
         obd_risk |-> reader.obd_risk,
         weighted_vision |-> RMul(reader.vision_risk, weights["vision"]),
         seen_vision |-> weights["vision"]])

\* ... + obd_risk * self.weights['obd'], and min(total_risk, 1.0);
\* seen_weights is the pair of weights this call has read
collision_read_obd_weight ==
    ReaderStep("collision_obd_weight",
        [pc |-> "lane", timestamp |-> reader.timestamp,
         collision |-> RMin(RAdd(reader.weighted_vision,
                                 RMul(reader.obd_risk, weights["obd"])), One),
         seen_weights |-> [vision |-> reader.seen_vision, obd |-> weights["obd"]]])

\* calculate_lane_departure_risk up to the end of the scan of
\* reversed(list(self.vision_buffer)); counted_len is the length of that list
lane_scan_snapshot ==
    ReaderStep("lane",
        IF vision_buffer = <<>>
        THEN [pc |-> "fatigue", timestamp |-> reader.timestamp,
              collision |-> reader.collision, lane_departure |-> Zero]
        ELSE [pc |-> "lane_len", timestamp |-> reader.timestamp,
              collision |-> reader.collision,
              recent_warnings |-> RecentWarnings(vision_buffer, Len(vision_buffer), now),
              counted_len |-> Len(vision_buffer)])

\* min(recent_warnings / len(self.vision_buffer), 1.0)
lane_read_len ==
    ReaderStep("lane_len",
        [pc |-> "fatigue", timestamp |-> reader.timestamp,
         collision |-> reader.collision,
         lane_departure |-> RMin(Rat(reader.recent_warnings, Len(vision_buffer)), One),
         counted_len |-> reader.counted_len,
         denominator |-> Len(vision_buffer)])

\* the risks computed so far
RisksSoFar(keys) == [k \in keys |-> reader[k]]

\* calculate_driver_fatigue_risk: latest_fatigue = self.fatigue_buffer[-1]
fatigue_read_latest ==
    ReaderStep("fatigue",
        [pc |-> IF fatigue_buffer = <<>> THEN "aggressive" ELSE "fatigue_iter",
         timestamp |-> reader.timestamp]
        @@ RisksSoFar({"collision", "lane_departure"})
        @@ (IF fatigue_buffer = <<>>
            THEN [driver_fatigue |-> Zero]
            ELSE [fatigue_score |-> fatigue_buffer[Len(fatigue_buffer)].fatigue_score]))

\* the generator over self.fatigue_buffer is created: the deque iterator
\* remembers the deque's modification count
fatigue_iter ==
    ReaderStep("fatigue_iter",
        [pc |-> "fatigue_sum", timestamp |-> reader.timestamp,
         fatigue_score |-> reader.fatigue_score,
         iter_state |-> Len(pushed.fatigue)]
        @@ RisksSoFar({"collision", "lane_departure"}))

\* sum(1 for entry in self.fatigue_buffer if entry['yawn_detected']) runs to
\* its end: no append came since the iterator was created
fatigue_sum ==
    /\ reader.pc = "fatigue_sum"
    /\ reader.iter_state = Len(pushed.fatigue)
    /\ ReaderStep("fatigue_sum",
        LET recent_yawns ==
                Cardinality({i \in DOMAIN fatigue_buffer : fatigue_buffer[i].yawn_detected})
            fatigue_risk ==
                RAdd(Rat(reader.fatigue_score, 100),
                     IF recent_yawns > 2 THEN Rat(2, 10) ELSE Zero)
        IN  [pc |-> "aggressive", timestamp |-> reader.timestamp,
             driver_fatigue |-> RMin(fatigue_risk, One)]
            @@ RisksSoFar({"collision", "lane_departure"}))

\* "RuntimeError: deque mutated during iteration": an append came between
\* the creation of the iterator and its last next()
fatigue_sum_raises ==
    /\ reader.pc = "fatigue_sum"
    /\ reader.iter_state # Len(pushed.fatigue)
    /\ ReaderRaises("fatigue_sum", "RuntimeError")

\* calculate_aggressive_driving_risk: total_entries = len(self.obd_buffer)
aggressive_read_len ==
    ReaderStep("aggressive",
        [pc |-> IF obd_buffer = <<>> THEN "build" ELSE "aggressive_iter",
         timestamp |-> reader.timestamp]
        @@ RisksSoFar({"collision", "lane_departure", "driver_fatigue"})
        @@ (IF obd_buffer = <<>>
            THEN [aggressive_driving |-> Zero]
            ELSE [total_entries |-> Len(obd_buffer)]))

\* "for entry in self.obd_buffer": the iterator is created
aggressive_iter ==
    ReaderStep("aggressive_iter",
        [pc |-> "aggressive_count", timestamp |-> reader.timestamp,
         total_entries |-> reader.total_entries,
         iter_state |-> Len(pushed.obd)]
        @@ RisksSoFar({"collision", "lane_departure", "driver_fatigue"}))

\* the loop runs to its end; counted_len is the number of entries it visited
aggressive_count ==
    /\ reader.pc = "aggressive_count"
    /\ reader.iter_state = Len(pushed.obd)
    /\ ReaderStep("aggressive_count",
        LET count == Cardinality({i \in DOMAIN obd_buffer : Flagged(obd_buffer[i])})
        IN  [pc |-> "build", timestamp |-> reader.timestamp,
             aggressive_driving |->
                 IF reader.total_entries > 0
                 THEN Rat(count, reader.total_entries)
                 ELSE Zero,
             counted_len |-> Len(obd_buffer),
             denominator |-> reader.total_entries]
            @@ RisksSoFar({"collision", "lane_departure", "driver_fatigue"}))

aggressive_count_raises ==
    /\ reader.pc = "aggressive_count"
    /\ reader.iter_state # Len(pushed.obd)
    /\ ReaderRaises("aggressive_count", "RuntimeError")

\* alerts, recommendations and score from the four risks, and the return
assessment_return ==
    /\ reader.pc = "build"
    /\ reader' = Idle
    /\ ret' = Call("generate_comprehensive_assessment", <<>>,
                   LET risks == RisksSoFar({"collision", "lane_departure",
                                            "driver_fatigue", "aggressive_driving"})
                   IN  [ timestamp            |-> reader.timestamp,
                         risks                |-> risks,
                         alerts               |-> Alerts(risks),
                         recommendations      |-> Recommendations(risks),
                         overall_safety_score |-> SafetyScore(risks) ])
    /\ UNCHANGED <<engine, writer, disk, data_buffer>>

\* the thread that assesses
Reader ==
    \/ assessment_begin
    \/ collision_read_entries
    \/ collision_read_vision_weight
    \/ collision_read_obd_weight
    \/ lane_scan_snapshot
    \/ lane_read_len
    \/ fatigue_read_latest
    \/ fatigue_iter
    \/ fatigue_sum
    \/ fatigue_sum_raises
    \/ aggressive_read_len
    \/ aggressive_iter
    \/ aggressive_count
    \/ aggressive_count_raises
    \/ assessment_return

\* samples of the three producer threads
ProducerVisionData == {vision_data \in LaneVisionData : vision_data["lane_departure_warning"]}
ProducerFatigueData == {fatigue_data \in FatigueData : fatigue_data["fatigue_score"] = 80}

ProduceVision ==
    \E vision_data \in ProducerVisionData :
        TotalPushes < MaxPushes /\ add_vision_data(vision_data)

ProduceObd ==
    \E obd_data \in EvictionObdData :
        TotalPushes < MaxPushes /\ add_obd_data(obd_data)

ProduceFatigue ==
    \E fatigue_data \in ProducerFatigueData :
        TotalPushes < MaxPushes /\ add_fatigue_data(fatigue_data)

\* three producers and one reader, no lock
NextThreads ==
    \/ ProduceVision
    \/ ProduceObd
    \/ ProduceFatigue
    \/ Reader

SpecThreads == Init /\ [][NextThreads]_vars

\* the reader has just divided a count by a length
Divided == "denominator" \in DOMAIN reader

\* the last call to return was an assessment that raised
AssessmentRaised ==
    /\ ret.op = "generate_comprehensive_assessment"
    /\ "error" \in DOMAIN ret.value

\* C11: with the three producers appending while one reader assesses, under
\* every interleaving the reader completes without error, each risk it
\* computes divides a count taken over the entries of one state of the
\* channel by the length of that same state, and no append is lost: each
\* history holds the last buffer_size entries appended to its channel.
\* (Violated: the engine takes no lock and no snapshot of the length.)
C11_ReaderSeesSnapshots ==
    /\ ~AssessmentRaised
    /\ Divided => reader.denominator = reader.counted_len
    /\ vision_buffer = LastN(pushed.vision, buffer_size)
    /\ obd_buffer = LastN(pushed.obd, buffer_size)
    /\ fatigue_buffer = LastN(pushed.fatigue, buffer_size)

\* the reader never raises
ReaderNeverRaises == ~AssessmentRaised

\* the lane departure risk never divides the count of one state by the
\* length of another
LaneRiskFromOneState ==
    (Divided /\ reader.pc = "fatigue") => reader.denominator = reader.counted_len

\* the aggressive driving risk is never above 1
AggressiveRiskAtMostOne ==
    (reader.pc = "build") => RLe(reader.aggressive_driving, One)

\* no append is lost
NoAppendLost ==
    /\ vision_buffer = LastN(pushed.vision, buffer_size)
    /\ obd_buffer = LastN(pushed.obd, buffer_size)
    /\ fatigue_buffer = LastN(pushed.fatigue, buffer_size)

----------------------------------------------------------------------------
(* adjust_fusion_weights step by step, next to a reader *)

\* the weights as they were between calls of adjust_fusion_weights: those of
\* the constructor, and those each call so far leaves when it returns
Committed ==
    IF "committed" \in DOMAIN writer THEN writer.committed ELSE {DefaultWeights}

AdjustCalls == IF "calls" \in DOMAIN writer THEN writer.calls ELSE 0

\* the call, "total_confidence = sum(sensor_confidence.values())" and the
\* test "if total_confidence > 0"
adjust_begin(sensor_confidence) ==
    /\ writer.pc = "idle"
    /\ AdjustCalls < MaxAdjusts
    /\ writer' = [ pc |-> "assign",
                   sensor_confidence |-> sensor_confidence,
                   total_confidence |-> TotalConfidence(sensor_confidence),
                   remaining |-> IF TotalConfidence(sensor_confidence) > 0
                                 THEN DOMAIN sensor_confidence
                                 ELSE {},
                   committed |-> Committed \cup {AdjustedWeights(sensor_confidence)},
                   calls |-> AdjustCalls + 1 ]
    /\ UNCHANGED <<engine, ret, reader, disk, data_buffer>>

\* one turn of "for sensor, confidence in sensor_confidence.items()", the
\* items in the order of the caller's dict
adjust_assign ==
    /\ writer.pc = "assign"
    /\ \E sensor \in writer.remaining :
          /\ weights' = IF sensor \in DOMAIN weights
                        THEN [weights EXCEPT
                                 ![sensor] = Rat(writer.sensor_confidence[sensor],
                                                 writer.total_confidence)]
                        ELSE weights
          /\ writer' = [writer EXCEPT !.remaining = @ \ {sensor}]
    /\ UNCHANGED <<buffer_size, buffers, alert_thresholds, now, pushed, ret, reader,
                   disk, data_buffer>>

adjust_return ==
    /\ writer.pc = "assign"
    /\ writer.remaining = {}
    /\ writer' = [pc |-> "idle", committed |-> writer.committed, calls |-> writer.calls]
    /\ ret' = Call("adjust_fusion_weights", writer.sensor_confidence, None)
    /\ UNCHANGED <<engine, reader, disk, data_buffer>>

\* the thread that adjusts the weights
Writer ==
    \/ \E sensor_confidence \in FewConfidences : adjust_begin(sensor_confidence)
    \/ adjust_assign
    \/ adjust_return

\* one writer and one reader on an engine that is being fed, no lock
NextRace ==
    \/ ProduceVision
    \/ ProduceObd
    \/ ProduceFatigue
    \/ Writer
    \/ Reader

SpecRace == Init /\ [][NextRace]_vars

\* the reader has just read the two weights of the collision risk
WeightsSeen == "seen_weights" \in DOMAIN reader

\* C12: adjust_fusion_weights is atomic for a reader: the weights an
\* assessment running next to it reads are those of one moment between calls,
\* all as they were before a call or all as they are after it, never some
\* from before and some from after.  (Violated: the weights are assigned one
\* key at a time, and the reader reads them one key at a time, with no lock.)
C12_ReaderSeesWeightsOfOneMoment ==
    WeightsSeen =>
        \E committed \in Committed :
            /\ committed["vision"] = reader.seen_weights["vision"]
            /\ committed["obd"] = reader.seen_weights["obd"]

\* a call that ran to its end left the weights the call made in one piece
\* would leave
WriterLeavesAdjustedWeights ==
    writer.pc = "idle" => weights \in Committed

----------------------------------------------------------------------------
(* Aggressive driving risk over entries with no, one and several flags *)

\* behaviour analyses with no flag, one flag, and three flags at once
FlagObdData ==
    { [speed |-> 50, rpm |-> 2000, throttle_position |-> 40,
       behavior_analysis |-> NoBehavior],
      [speed |-> 50, rpm |-> 4500, throttle_position |-> 40,
       behavior_analysis |-> [NoBehavior EXCEPT !.engine_stress = TRUE]],
      [speed |-> 50, rpm |-> 2000, throttle_position |-> 40,
       behavior_analysis |-> [NoBehavior EXCEPT !.aggressive_braking = TRUE]],
      [speed |-> 130, rpm |-> 4500, throttle_position |-> 90,
       behavior_analysis |-> [NoBehavior EXCEPT !.aggressive_acceleration = TRUE,
                                               !.excessive_speed = TRUE,
                                               !.engine_stress = TRUE]] }

IngestFlags ==
    \E obd_data \in FlagObdData :
        Len(pushed.obd) < MaxPushes /\ add_obd_data(obd_data)

NextAggressive ==
    \/ IngestFlags
    \/ generate_comprehensive_assessment

SpecAggressive == Init /\ [][NextAggressive]_vars

\* the buffered bus entries with at least one flag
FlaggedEntries == {i \in DOMAIN obd_buffer : Flagged(obd_buffer[i])}

\* the number of flags an entry has
FlagCount(entry) ==
    Cardinality({f \in {"aggressive_acceleration", "aggressive_braking",
                        "excessive_speed", "engine_stress"} : entry[f]})

\* C21: the aggressive driving risk is 0 on an empty bus history; otherwise
\* it is the number of buffered entries with at least one of the four flags
\* divided by the current length of the history, an entry with several flags
\* counting once, and it is 1 exactly when every buffered entry is flagged.
\* An assessment returns that value.
C21_AggressiveRiskIsFlaggedShare ==
    /\ obd_buffer = <<>> => calculate_aggressive_driving_risk = Zero
    /\ obd_buffer # <<>> =>
          /\ calculate_aggressive_driving_risk =
                Rat(Cardinality(FlaggedEntries), Len(obd_buffer))
          /\ calculate_aggressive_driving_risk = One
                <=> \A i \in DOMAIN obd_buffer : Flagged(obd_buffer[i])
          /\ RLe(calculate_aggressive_driving_risk, One)
    /\ Assessed => ret.value.risks.aggressive_driving = calculate_aggressive_driving_risk

\* an assessment of a history of two entries, one with three flags and one
\* with none: the risk is one half
C21_SeveralFlagsCountOnce ==
    /\ Assessed
    /\ Len(obd_buffer) = 2
    /\ \E i \in DOMAIN obd_buffer : FlagCount(obd_buffer[i]) = 3
    /\ \E i \in DOMAIN obd_buffer : FlagCount(obd_buffer[i]) = 0
    /\ ret.value.risks.aggressive_driving = Rat(1, 2)

----------------------------------------------------------------------------
(* Recommendations and alerts of an assessment *)

\* the positions of a recommendation in an assessment's recommendations
PositionsOf(recommendations, text) ==
    {i \in DOMAIN recommendations : recommendations[i] = text}

\* one before the other wherever both are there
InOrder(recommendations, first, second) ==
    \A i \in PositionsOf(recommendations, first) :
        \A j \in PositionsOf(recommendations, second) : i < j

\* C22: the recommendations of an assessment follow from the risks and fixed
\* cut-offs alone: "Increase following distance" is there iff the collision
\* risk is > 0.3, "Consider taking a break" iff the driver fatigue risk is
\* > 0.5, "Reduce acceleration and maintain steady speed" iff the aggressive
\* driving risk is > 0.4, each at most once and in that order, and nothing
\* else is there: the lane departure risk gives no recommendation.
C22_RecommendationsFromCutOffs ==
    Assessed =>
        LET a == ret.value
            following == "Increase following distance"
            break == "Consider taking a break"
            reduce == "Reduce acceleration and maintain steady speed"
        IN  /\ PositionsOf(a.recommendations, following) # {}
                  <=> RLt(Rat(3, 10), a.risks.collision)
            /\ PositionsOf(a.recommendations, break) # {}
                  <=> RLt(Rat(5, 10), a.risks.driver_fatigue)
            /\ PositionsOf(a.recommendations, reduce) # {}
                  <=> RLt(Rat(4, 10), a.risks.aggressive_driving)
            /\ \A i \in DOMAIN a.recommendations :
                  a.recommendations[i] \in {following, break, reduce}
            /\ \A text \in {following, break, reduce} :
                  Cardinality(PositionsOf(a.recommendations, text)) <= 1
            /\ InOrder(a.recommendations, following, break)
            /\ InOrder(a.recommendations, following, reduce)
            /\ InOrder(a.recommendations, break, reduce)

\* an assessment with the recommendation of a domain and without its alert
\* (collision risk above 0.3 and not above 0.7), and with a lane departure
\* risk above 0 that adds no recommendation
C22_RecommendationWithoutAlert ==
    /\ Assessed
    /\ RLt(Zero, ret.value.risks.lane_departure)
    /\ RLt(Rat(3, 10), ret.value.risks.collision)
    /\ RLe(ret.value.risks.collision, alert_thresholds["collision_risk"])
    /\ ret.value.recommendations = <<"Increase following distance">>
    /\ AlertsOfType(ret.value.alerts, "COLLISION_WARNING") = {}

----------------------------------------------------------------------------
(* process_frame: from the OBD reader to the obd history *)

\* OBDReader.get_latest_data: a copy of data_buffer, keyed by command name
get_latest_data == data_buffer

\* "obd_data = self.obd_reader.get_latest_data()",
\* "obd_data['behavior_analysis'] = behavior_analysis",
\* "self.sensor_fusion.add_obd_data(obd_data)"
process_frame_obd ==
    /\ Len(pushed.obd) < MaxPushes
    /\ add_obd_data(DictSet(get_latest_data, "behavior_analysis", Analysis))

NextFrame ==
    \/ _read_loop
    \/ process_frame_obd

SpecFrame == Init /\ [][NextFrame]_vars

\* the entry process_frame has just appended
FrameEntry == obd_buffer[Len(obd_buffer)]

\* C23: the entry process_frame appends to the obd history carries the
\* reader's latest readings: when the reader holds a speed, an rpm or a
\* throttle reading at that time, the entry's speed, rpm or
\* throttle_position is that reading.  (Violated: the entry holds 0 in all
\* three, whatever the reader holds.)
C23_EntryCarriesReadings ==
    ret.op = "add_obd_data" =>
        /\ Available("SPEED") => FrameEntry.speed = data_buffer["SPEED"].value
        /\ Available("RPM") => FrameEntry.rpm = data_buffer["RPM"].value
        /\ Available("THROTTLE_POS") =>
              FrameEntry.throttle_position = data_buffer["THROTTLE_POS"].value

\* what the entry does hold: 0 for the three readings, and the flags of
\* analyze_driving_behavior
FrameEntryHoldsDefaults ==
    ret.op = "add_obd_data" =>
        /\ FrameEntry.speed = 0
        /\ FrameEntry.rpm = 0
        /\ FrameEntry.throttle_position = 0
        /\ FrameEntry.excessive_speed = Analysis.excessive_speed
        /\ FrameEntry.engine_stress = Analysis.engine_stress
        /\ FrameEntry.aggressive_acceleration = Analysis.aggressive_acceleration

----------------------------------------------------------------------------
(* The closest object of a detection list *)

\* detections: of a class with no distance estimate (obj.get('distance') is
\* None), and at 0, 5 and 10 metres
DetectedObjects ==
    { [class |-> "unknown"],
      [class |-> "vehicle", distance |-> 0],
      [class |-> "vehicle", distance |-> 5],
      [class |-> "pedestrian", distance |-> 10] }

\* detection lists of up to two objects
DetectionLists ==
    {<<>>} \cup {<<a>> : a \in DetectedObjects}
           \cup {<<a, b>> : a \in DetectedObjects, b \in DetectedObjects}

DetectionVisionData ==
    [ lane_departure_warning : {FALSE},
      collision_warning      : {FALSE},
      detected_objects       : DetectionLists,
      confidence             : {90} ]

IngestDetections ==
    \E vision_data \in DetectionVisionData :
        Len(pushed.vision) < MaxPushes /\ add_vision_data(vision_data)

NextClosest ==
    \/ IngestDetections
    \/ generate_comprehensive_assessment

SpecClosest == Init /\ [][NextClosest]_vars

\* the distances of the objects of a list that carry one, 0 included
CarriedDistances(objects) ==
    {objects[i]["distance"] : i \in {j \in DOMAIN objects : "distance" \in DOMAIN objects[j]}}

\* the vision entry add_vision_data has just appended
StoredVision == vision_buffer[Len(vision_buffer)]

\* C24: the closest_object_distance add_vision_data stores is the minimum
\* of the distances of all the detected objects that carry a distance, a
\* distance of 0 included, and it is infinite only when there is no detected
\* object or none that carries a distance.  (Violated: an object at distance
\* 0 is passed over like one with no distance.)
C24_ClosestIsMinimumOfCarriedDistances ==
    ret.op = "add_vision_data" =>
        LET distances == CarriedDistances(ret.arg["detected_objects"])
        IN  /\ distances # {} =>
                  StoredVision.closest_object_distance = MinOf(distances)
            /\ StoredVision.closest_object_distance = INF <=> distances = {}

\* what is stored: the minimum of the distances other than 0
ClosestIsMinimumOfNonZeroDistances ==
    ret.op = "add_vision_data" =>
        LET distances == CarriedDistances(ret.arg["detected_objects"]) \ {0}
        IN  /\ distances # {} =>
                  StoredVision.closest_object_distance = MinOf(distances)
            /\ StoredVision.closest_object_distance = INF <=> distances = {}
            /\ StoredVision.objects_detected = Len(ret.arg["detected_objects"])

\* the place of an alert type in the fixed order
AlertRank(type) ==
    IF type = "COLLISION_WARNING" THEN 1
    ELSE IF type = "LANE_DEPARTURE" THEN 2
    ELSE IF type = "FATIGUE_WARNING" THEN 3
    ELSE IF type = "AGGRESSIVE_DRIVING" THEN 4
    ELSE 0

\* the risk and the threshold an alert type is raised on
AlertRisk(risks, type) ==
    IF type = "COLLISION_WARNING" THEN risks.collision
    ELSE IF type = "LANE_DEPARTURE" THEN risks.lane_departure
    ELSE IF type = "FATIGUE_WARNING" THEN risks.driver_fatigue
    ELSE risks.aggressive_driving

AlertThreshold(type) ==
    IF type = "COLLISION_WARNING" THEN alert_thresholds["collision_risk"]
    ELSE IF type = "LANE_DEPARTURE" THEN alert_thresholds["lane_departure"]
    ELSE IF type = "FATIGUE_WARNING" THEN alert_thresholds["driver_fatigue"]
    ELSE alert_thresholds["aggressive_driving"]

\* C25: in every assessment, whatever was called before it, the alerts are
\* at most four, of the four known types, at most one of each type, and in
\* the order COLLISION_WARNING, LANE_DEPARTURE, FATIGUE_WARNING,
\* AGGRESSIVE_DRIVING; each one is raised by a risk of this very assessment,
\* none is left over from an earlier call.
C25_AlertsOrderedAndFresh ==
    Assessed =>
        LET alerts == ret.value.alerts
        IN  /\ Len(alerts) <= 4
            /\ \A i \in DOMAIN alerts : AlertRank(alerts[i].type) \in 1 .. 4
            /\ \A i, j \in DOMAIN alerts :
                  i < j => AlertRank(alerts[i].type) < AlertRank(alerts[j].type)
            /\ \A i \in DOMAIN alerts :
                  RLt(AlertThreshold(alerts[i].type),
                      AlertRisk(ret.value.risks, alerts[i].type))

\* an assessment with all four alerts
C25_AllFourAlerts ==
    /\ Assessed
    /\ Len(ret.value.alerts) = 4
    /\ ret.value.alerts[1].type = "COLLISION_WARNING"
    /\ ret.value.alerts[4].type = "AGGRESSIVE_DRIVING"

============================================================================
